---------------------------- MODULE Spec2Model ----------------------------
(***************************************************************************)
(* A model of the haumea code generator (src/src/codegen.rs).              *)
(*                                                                         *)
(* Text is a sequence of tokens whose concatenation is the emitted string. *)
(* Whitespace and punctuation are one token per character, identifiers,    *)
(* keywords and operator names are one token each, and every line of the   *)
(* fixed prolog and epilog is one token.                                   *)
(*                                                                         *)
(* The recursion of compile_ast / compile_function / compile_statement is  *)
(* modelled with an explicit call stack; compile_expression, which returns *)
(* a String and touches no buffer, is a recursive operator.                *)
(***************************************************************************)
EXTENDS Integers, Sequences, FiniteSets

VARIABLES ast,      \* the Program handed to compile_ast
          out,      \* the output buffer (&mut String)
          stack,    \* the call stack, top first
          status,   \* "running", "done" (compile_ast returned) or "panicked"
          fnlog,    \* history: for each compile_function call, where it started
          log       \* history: for each compile_statement call, its span of out

vars == <<ast, out, stack, status, fnlog, log>>

---------------------------------------------------------------------------
(* Bounds of the checked inputs *)

MaxFuncs == 2
MaxParams == 2
MaxArgs == 2
MaxBlock == 2

---------------------------------------------------------------------------
(* Constants of codegen.rs *)

INDENT == <<" ", " ", " ", " ">>

NEW_LINE == <<"\n">>

PROLOG ==
    << "\n", "/* Haumea prolog */", "\n", "#include <stdio.h>", "\n", "\n",
       "long display(long n) {", "\n", "    printf(\"%ld\\n\", n);", "\n",
       "    return 0;", "\n", "}", "\n", "\n", "/* End prolog */", "\n", "\n",
       "/* Start compiled program */", "\n" >>

EPILOG == << "\n", "/* End compiled program */", "\n" >>

---------------------------------------------------------------------------
(* The AST of parser::Program, as codegen.rs destructures it.  A value     *)
(* behind an Rc is a record [unique, val]: unique is whether the strong    *)
(* count is 1 when the generator reaches it (Rc::try_unwrap succeeds).     *)

Rc(u, v) == [unique |-> u, val |-> v]

Own(v) == Rc(TRUE, v)

Shared(v) == Rc(FALSE, v)

NoneValue == [kind |-> "None"]

Integer(v) == [kind |-> "Integer", value |-> v]

Id(n) == [kind |-> "Ident", name |-> n]

Bin(op, l, r) == [kind |-> "BinaryOp", operator |-> op, left |-> l, right |-> r]

Un(op, e) == [kind |-> "UnaryOp", operator |-> op, expression |-> e]

CallE(f, args) == [kind |-> "Call", function |-> f, arguments |-> args]

Return(e) == [kind |-> "Return", expr |-> e]

Do(block) == [kind |-> "Do", block |-> block]

CallS(f, args) == [kind |-> "Call", function |-> f, arguments |-> args]

Var(x) == [kind |-> "Var", ident |-> x]

SetS(x, e) == [kind |-> "Set", ident |-> x, expr |-> e]

Change(x, e) == [kind |-> "Change", ident |-> x, expr |-> e]

If(c, t, e) == [kind |-> "If", cond |-> c, if_clause |-> t, else_clause |-> e]

NoSignature == [some |-> FALSE, params |-> <<>>]

Signature(ps) == [some |-> TRUE, params |-> ps]

Function(n, sig, code) == [name |-> n, signature |-> sig, code |-> code]

Operators ==
    { "Add", "Sub", "Mul", "Div", "Negate", "Equals", "NotEquals", "Gt", "Lt",
      "Gte", "Lte", "LogicalAnd", "LogicalOr", "LogicalNot", "BinaryAnd",
      "BinaryOr", "BinaryNot" }

---------------------------------------------------------------------------
(* Utility functions *)

RECURSIVE replicate(_, _)
replicate(s, t) ==
    IF t = 0 THEN <<>> ELSE replicate(s, t - 1) \o s

get_c_name(op) ==
    CASE op = "Add" -> "+"
      [] op = "Sub" -> "-"
      [] op = "Mul" -> "*"
      [] op = "Div" -> "/"
      [] op = "Negate" -> "-"
      [] op = "Equals" -> "=="
      [] op = "NotEquals" -> "!="
      [] op = "Gt" -> ">"
      [] op = "Lt" -> "<"
      [] op = "Gte" -> ">="
      [] op = "Lte" -> "<="
      [] op = "LogicalAnd" -> "&&"
      [] op = "LogicalOr" -> "||"
      [] op = "LogicalNot" -> "!"
      [] op = "BinaryAnd" -> "&"
      [] op = "BinaryOr" -> "|"
      [] op = "BinaryNot" -> "~"

(* format!("{:?}", i) of an i64: the decimal digits, "-" first when negative *)
DecimalDigits == <<"0", "1", "2", "3", "4", "5", "6", "7", "8", "9">>

RECURSIVE NatText(_)
NatText(n) ==
    IF n < 10 THEN <<DecimalDigits[n + 1]>>
    ELSE NatText(n \div 10) \o <<DecimalDigits[(n % 10) + 1]>>

IntegerText(i) ==
    IF i < 0 THEN <<"-">> \o NatText(0 - i) ELSE NatText(i)

---------------------------------------------------------------------------
(* compile_expression: [ok |-> TRUE, text |-> the String returned], or     *)
(* [ok |-> FALSE, ...] when it panics.                                     *)

Rendered(t) == [ok |-> TRUE, text |-> t]

Panicked == [ok |-> FALSE, text |-> <<>>]

(* Mutant: the separator follows every argument *)
ArgumentText_Trailing(text, index, len) == text \o <<",", " ">>

(* The last argument of a call is pushed bare, the others with ", " *)
ArgumentText(text, index, len) ==
    IF index = len - 1 THEN text ELSE text \o <<",", " ">>

RECURSIVE compile_expression(_)
RECURSIVE compile_call_arguments(_, _, _, _)

compile_call_arguments(args, index, len, acc) ==
    IF args = <<>> THEN Rendered(acc)
    ELSE IF ~Head(args).unique THEN Panicked
    ELSE LET r == compile_expression(Head(args).val)
         IN  IF ~r.ok THEN Panicked
             ELSE compile_call_arguments(Tail(args), index + 1, len,
                      acc \o ArgumentText(r.text, index, len))

(* Mutant: the operands change places *)
BinaryOpText_Swapped(lh, op, rh) ==
    <<"(">> \o rh \o <<" ", get_c_name(op), " ">> \o lh \o <<")">>

BinaryOpText(lh, op, rh) ==
    <<"(">> \o lh \o <<" ", get_c_name(op), " ">> \o rh \o <<")">>

UnaryOpText(op, exp) ==
    <<"(", get_c_name(op)>> \o exp \o <<")">>

compile_expression(expr) ==
    CASE expr.kind = "Integer" -> Rendered(IntegerText(expr.value) \o <<"l">>)
      [] expr.kind = "Ident" -> Rendered(<<expr.name>>)
      [] expr.kind = "BinaryOp" ->
            IF ~expr.left.unique THEN Panicked
            ELSE IF ~expr.right.unique THEN Panicked
            ELSE LET lh == compile_expression(expr.left.val)
                     rh == compile_expression(expr.right.val)
                 IN  IF ~lh.ok \/ ~rh.ok THEN Panicked
                     ELSE Rendered(BinaryOpText(lh.text, expr.operator, rh.text))
      [] expr.kind = "Call" ->
            LET r == compile_call_arguments(expr.arguments, 0,
                         Len(expr.arguments), <<expr.function, "(">>)
            IN  IF ~r.ok THEN Panicked ELSE Rendered(r.text \o <<")">>)
      [] expr.kind = "UnaryOp" ->
            IF ~expr.expression.unique THEN Panicked
            ELSE LET exp == compile_expression(expr.expression.val)
                 IN  IF ~exp.ok THEN Panicked
                     ELSE Rendered(UnaryOpText(expr.operator, exp.text))

---------------------------------------------------------------------------
(* The Programs the generator is run on *)

SeqsUpTo(S, n) == UNION { [1..k -> S] : k \in 0..n }

RcSet(S) == { Rc(u, v) : u \in BOOLEAN, v \in S }

OwnSet(S) == { Own(v) : v \in S }

A == Id("a")

ParamPool == <<"a", "b", "c", "d">>

Params(n) == [i \in 1..n |-> ParamPool[((i - 1) % Len(ParamPool)) + 1]]

Signatures == {NoSignature} \cup { Signature(Params(n)) : n \in 0..MaxParams }

FuncNames == {"main", "f", "mainx"}

(* Expressions, by depth *)
Atoms == {Integer(0), Integer(-12), A}

Expr1 ==
    Atoms
    \cup { Bin(op, l, r) : op \in Operators, l \in RcSet(Atoms), r \in RcSet(Atoms) }
    \cup { Un(op, e) : op \in Operators, e \in RcSet(Atoms) }
    \cup { CallE("f", args) : args \in SeqsUpTo(RcSet(Atoms), MaxArgs) }

Sample1 ==
    { A,
      Bin("Add", Own(A), Own(Integer(5))),
      Un("Negate", Own(A)),
      CallE("f", <<Own(A)>>) }

Expr2 ==
    { Bin(op, l, r) : op \in {"Mul", "LogicalAnd"}, l \in RcSet(Sample1), r \in RcSet(Sample1) }
    \cup { Un("LogicalNot", e) : e \in RcSet(Sample1) }
    \cup { CallE("g", args) : args \in SeqsUpTo(RcSet(Sample1), MaxArgs) }

Sample2 ==
    { Bin("Mul", Own(Bin("Add", Own(A), Own(Integer(5)))), Own(Un("Negate", Own(A)))),
      Un("BinaryNot", Own(CallE("f", <<Own(A)>>))),
      CallE("g", <<Own(Un("Negate", Own(A))), Own(A)>>),
      Un("LogicalNot", Own(Un("Negate", Shared(A)))) }

Expr3 ==
    { Bin("Lte", Own(l), Own(r)) : l \in Sample2, r \in Sample2 }
    \cup { Un("Negate", Own(e)) : e \in Sample2 }
    \cup { CallE("h", <<Own(l), Own(r)>>) : l \in Sample2, r \in Sample2 }

Expressions == Expr1 \cup Expr2 \cup Expr3

(* Statements *)
Aliased == Un("Negate", Shared(A))

StmtExprs == {A, Bin("Add", Own(A), Own(Integer(5))), Aliased}

CallArgs == {A, Bin("Sub", Own(Integer(7)), Own(A)), Aliased}

Leaves ==
    { Return(e) : e \in StmtExprs }
    \cup { SetS("x", e) : e \in StmtExprs }
    \cup { Change("x", e) : e \in StmtExprs }
    \cup { Var("x") }
    \cup { CallS("display", args) : args \in SeqsUpTo(CallArgs, MaxArgs) }

BlockItems ==
    { Return(A), Var("x"), CallS("display", <<A>>), SetS("x", Aliased) }

Blocks == { Do(b) : b \in SeqsUpTo(RcSet(BlockItems), MaxBlock) }

Branches == { Return(A), Do(<<>>), Do(<<Own(Var("x"))>>) }

Ifs ==
    { If(c, t, e) : c \in {A, Bin("Lt", Own(A), Shared(Integer(5)))},
                    t \in RcSet(Branches),
                    e \in RcSet(Branches \cup {NoneValue}) }

NestItems ==
    { If(A, Own(Do(<<Own(Var("x"))>>)), Own(NoneValue)),
      If(Bin("Gt", Own(A), Own(Integer(0))),
         Own(Do(<<Own(SetS("x", A))>>)),
         Own(Do(<<Own(Change("x", Integer(1))), Own(Return(A))>>))),
      Do(<<Own(Var("x")), Own(Do(<<Own(CallS("display", <<A, A>>))>>))>>),
      If(A, Own(If(A, Own(Return(A)), Own(Return(Integer(0))))), Own(Var("x"))),
      Do(<<Own(CallS("display", <<A, Integer(3)>>)), Own(CallS("f", <<>>))>>),
      Return(CallE("g", <<Own(A), Own(CallE("h", <<>>))>>)),
      Return(A) }

Nested == { Do(b) : b \in SeqsUpTo(OwnSet(NestItems), MaxBlock) }

Bodies == Leaves \cup Blocks \cup Ifs \cup Nested

(* One function whose body returns an expression *)
ExpressionPrograms ==
    { <<Function("f", NoSignature, Return(e))>> : e \in Expressions }

(* One function with each body *)
StatementPrograms ==
    { <<Function(n, NoSignature, b)>> : n \in {"main", "f"}, b \in Bodies }

(* One function with each signature *)
SignaturePrograms ==
    { <<Function(n, s, Do(<<>>))>> : n \in FuncNames, s \in Signatures }

(* Up to MaxFuncs functions *)
SmallFunctions ==
    { Function(n, s, b) : n \in FuncNames,
                          s \in {NoSignature, Signature(Params(MaxParams))},
                          b \in {Do(<<>>), Do(<<Shared(Var("x"))>>)} }

FunctionPrograms == SeqsUpTo(SmallFunctions, MaxFuncs)

Programs ==
    ExpressionPrograms \cup StatementPrograms \cup SignaturePrograms
    \cup FunctionPrograms

---------------------------------------------------------------------------
(* The call stack.  A frame is a position in one of the functions:         *)
(*   compile_ast        before line 27                                     *)
(*   ast_loop           the for of line 28, items the functions left       *)
(*   compile_function   entry of compile_function(node)                    *)
(*   stmt               entry of compile_statement(node, indent)           *)
(*   do_loop            the for of line 64, items the children left        *)
(*   call_loop          the for of line 79, items the arguments left       *)
(*   if_cond            line 111                                           *)
(*   if_then            line 112                                           *)
(*   if_else            line 117                                           *)
(*   if_end             after the call of line 123                         *)
(* id is the log entry of the compile_statement call the frame belongs to  *)
(* (for a stmt frame, of its caller; 0 when compile_function called it).   *)

Frame(pc, node, indent, items, index, id) ==
    [pc |-> pc, node |-> node, indent |-> indent, items |-> items,
     index |-> index, id |-> id]

Top == Head(stack)

Running(pc) == status = "running" /\ stack # <<>> /\ Top.pc = pc

Entering(kind) == Running("stmt") /\ Top.node.kind = kind

Returned == Tail(stack)

Goto(frame) == <<frame>> \o Tail(stack)

Call(callee, frame) == <<callee, frame>> \o Tail(stack)

StmtFrame(node, indent, id) == Frame("stmt", node, indent, <<>>, 0, id)

Continue(pc) == [Top EXCEPT !.pc = pc, !.id = Len(log) + 1]

(* panic!("Could not compile!"): the run ends, the buffer stays as it is *)
Panic ==
    /\ status' = "panicked"
    /\ stack' = <<>>
    /\ UNCHANGED <<ast, out, fnlog, log>>

(* History of compile_statement calls *)
Entry(node, indent, parent, start, end) ==
    [node |-> node, indent |-> indent, parent |-> parent, start |-> start,
     end |-> end]

Opened == Append(log, Entry(Top.node, Top.indent, Top.id, Len(out), -1))

Closed == [log EXCEPT ![Top.id].end = Len(out')]

Whole == Append(log, Entry(Top.node, Top.indent, Top.id, Len(out), Len(out')))

Indentation(indent) == replicate(INDENT, indent)

---------------------------------------------------------------------------
(* compile_ast *)

Init ==
    /\ ast \in Programs
    /\ out = <<>>
    /\ stack = <<Frame("compile_ast", NoneValue, 0, <<>>, 0, 0)>>
    /\ status = "running"
    /\ fnlog = <<>>
    /\ log = <<>>

CompileAstProlog ==
    /\ Running("compile_ast")
    /\ out' = out \o PROLOG
    /\ stack' = Goto([Top EXCEPT !.pc = "ast_loop", !.items = ast])
    /\ UNCHANGED <<ast, status, fnlog, log>>

(* Mutant: the functions are taken from the back of the Program *)
CompileAstLoop_Reversed ==
    /\ Running("ast_loop")
    /\ Top.items # <<>>
    /\ stack' = Call(Frame("compile_function", Top.items[Len(Top.items)],
                           0, <<>>, 0, 0),
                     [Top EXCEPT !.items = SubSeq(Top.items, 1, Len(Top.items) - 1)])
    /\ UNCHANGED <<ast, out, status, fnlog, log>>

CompileAstLoop ==
    /\ Running("ast_loop")
    /\ Top.items # <<>>
    /\ stack' = Call(Frame("compile_function", Head(Top.items), 0, <<>>, 0, 0),
                     [Top EXCEPT !.items = Tail(Top.items)])
    /\ UNCHANGED <<ast, out, status, fnlog, log>>

CompileAstEpilog ==
    /\ Running("ast_loop")
    /\ Top.items = <<>>
    /\ out' = out \o EPILOG
    /\ stack' = Returned
    /\ status' = "done"
    /\ UNCHANGED <<ast, fnlog, log>>

---------------------------------------------------------------------------
(* compile_function *)

(* Mutant: the name is not looked at *)
ReturnType_AlwaysLong(name) == <<"long", " ">>

ReturnType(name) == IF name = "main" THEN <<"int", " ">> ELSE <<"long", " ">>

RECURSIVE FirstParams(_)
FirstParams(first_params) ==
    IF first_params = <<>> THEN <<>>
    ELSE <<"long", " ", Head(first_params), ",", " ">>
         \o FirstParams(Tail(first_params))

SignatureText(signature) ==
    IF signature.some /\ signature.params # <<>>
    THEN LET sig == signature.params
         IN  FirstParams(SubSeq(sig, 1, Len(sig) - 1))
             \o <<"long", " ", sig[Len(sig)]>>
    ELSE <<>>

FunctionHeader(func) ==
    NEW_LINE \o ReturnType(func.name) \o <<func.name>> \o <<"(">>
    \o SignatureText(func.signature) \o <<")">>

CompileFunction ==
    /\ Running("compile_function")
    /\ out' = out \o FunctionHeader(Top.node)
    /\ stack' = Goto(StmtFrame(Top.node.code, 0, 0))
    /\ fnlog' = Append(fnlog, [func |-> Top.node, start |-> Len(out)])
    /\ UNCHANGED <<ast, status, log>>

---------------------------------------------------------------------------
(* compile_statement *)

ReturnText(indent, exp) ==
    Indentation(indent) \o <<"return", " ">> \o exp \o <<";">>

StmtReturn ==
    /\ Entering("Return")
    /\ LET exp == compile_expression(Top.node.expr)
       IN  IF exp.ok
           THEN /\ out' = out \o ReturnText(Top.indent, exp.text)
                /\ stack' = Returned
                /\ log' = Whole
                /\ UNCHANGED <<ast, status, fnlog>>
           ELSE Panic

DoOpenText(indent) == <<"\n">> \o Indentation(indent) \o <<"{", "\n">>

(* Mutant: the closing brace without the newline before it *)
DoCloseText_NoNewline(indent) == Indentation(indent) \o <<"}", "\n">>

DoCloseText(indent) == <<"\n">> \o Indentation(indent) \o <<"}", "\n">>

(* Mutant: the children of a block keep the block's own depth *)
ChildIndent_Same(indent) == indent

ChildIndent(indent) == indent + 1

StmtDoOpen ==
    /\ Entering("Do")
    /\ out' = out \o DoOpenText(Top.indent)
    /\ stack' = Goto([Continue("do_loop") EXCEPT !.items = Top.node.block])
    /\ log' = Opened
    /\ UNCHANGED <<ast, status, fnlog>>

(* Mutant: a Do child is compiled whether or not its reference is unique *)
StmtDoChild_Unchecked ==
    /\ Running("do_loop")
    /\ Top.items # <<>>
    /\ stack' = Call(StmtFrame(Head(Top.items).val, ChildIndent(Top.indent),
                               Top.id),
                     [Top EXCEPT !.items = Tail(Top.items)])
    /\ UNCHANGED <<ast, out, status, fnlog, log>>

StmtDoChild ==
    /\ Running("do_loop")
    /\ Top.items # <<>>
    /\ LET sub_statement == Head(Top.items)
       IN  IF sub_statement.unique
           THEN /\ stack' = Call(StmtFrame(sub_statement.val,
                                           ChildIndent(Top.indent), Top.id),
                                 [Top EXCEPT !.items = Tail(Top.items)])
                /\ UNCHANGED <<ast, out, status, fnlog, log>>
           ELSE Panic

(* Mutant: a newline that ends the buffer is taken back before the brace *)
StmtDoClose_Rewrites ==
    /\ Running("do_loop")
    /\ Top.items = <<>>
    /\ out' = (IF out[Len(out)] = "\n" THEN SubSeq(out, 1, Len(out) - 1) ELSE out)
                  \o Indentation(Top.indent) \o <<"}", "\n">>
    /\ stack' = Returned
    /\ log' = Closed
    /\ UNCHANGED <<ast, status, fnlog>>

StmtDoClose ==
    /\ Running("do_loop")
    /\ Top.items = <<>>
    /\ out' = out \o DoCloseText(Top.indent)
    /\ stack' = Returned
    /\ log' = Closed
    /\ UNCHANGED <<ast, status, fnlog>>

CallHeadText(indent, func) == Indentation(indent) \o <<func, "(">>

StmtCallHead ==
    /\ Entering("Call")
    /\ out' = out \o CallHeadText(Top.indent, Top.node.function)
    /\ stack' = Goto([Continue("call_loop") EXCEPT !.items = Top.node.arguments])
    /\ log' = Opened
    /\ UNCHANGED <<ast, status, fnlog>>

StmtCallArg ==
    /\ Running("call_loop")
    /\ Top.items # <<>>
    /\ LET arg == compile_expression(Head(Top.items))
           len == Len(Top.node.arguments)
       IN  IF arg.ok
           THEN /\ out' = out \o ArgumentText(arg.text, Top.index, len)
                /\ stack' = Goto([Top EXCEPT !.items = Tail(Top.items),
                                             !.index = Top.index + 1])
                /\ UNCHANGED <<ast, status, fnlog, log>>
           ELSE Panic

StmtCallClose ==
    /\ Running("call_loop")
    /\ Top.items = <<>>
    /\ out' = out \o <<")", ";", "\n">>
    /\ stack' = Returned
    /\ log' = Closed
    /\ UNCHANGED <<ast, status, fnlog>>

StmtVar ==
    /\ Entering("Var")
    /\ out' = out \o Indentation(Top.indent)
                  \o <<"long", " ", Top.node.ident, ";", "\n">>
    /\ stack' = Returned
    /\ log' = Whole
    /\ UNCHANGED <<ast, status, fnlog>>

StmtSet ==
    /\ Entering("Set")
    /\ LET expr == compile_expression(Top.node.expr)
       IN  IF expr.ok
           THEN /\ out' = out \o Indentation(Top.indent)
                             \o <<Top.node.ident, " ", "=", " ">> \o expr.text
                             \o <<";", "\n">>
                /\ stack' = Returned
                /\ log' = Whole
                /\ UNCHANGED <<ast, status, fnlog>>
           ELSE Panic

StmtChange ==
    /\ Entering("Change")
    /\ LET expr == compile_expression(Top.node.expr)
       IN  IF expr.ok
           THEN /\ out' = out \o Indentation(Top.indent)
                             \o <<Top.node.ident, " ", "+=", " ">> \o expr.text
                             \o <<";", "\n">>
                /\ stack' = Returned
                /\ log' = Whole
                /\ UNCHANGED <<ast, status, fnlog>>
           ELSE Panic

IfHeadText(indent) == Indentation(indent) \o <<"if", " ">>

IfCondText(cond) == <<" ">> \o cond \o <<" ">>

(* Mutant: the else keyword is written at the depth of the branches *)
ElseText_Deeper(indent) == Indentation(indent + 1) \o <<"else", " ">>

ElseText(indent) == Indentation(indent) \o <<"else", " ">>

BranchIndent(indent) == indent + 1

StmtIfHead ==
    /\ Entering("If")
    /\ out' = out \o IfHeadText(Top.indent)
    /\ stack' = Goto(Continue("if_cond"))
    /\ log' = Opened
    /\ UNCHANGED <<ast, status, fnlog>>

StmtIfCond ==
    /\ Running("if_cond")
    /\ LET cond == compile_expression(Top.node.cond)
       IN  IF cond.ok
           THEN /\ out' = out \o IfCondText(cond.text)
                /\ stack' = Goto([Top EXCEPT !.pc = "if_then"])
                /\ UNCHANGED <<ast, status, fnlog, log>>
           ELSE Panic

StmtIfThen ==
    /\ Running("if_then")
    /\ LET if_clause == Top.node.if_clause
       IN  IF if_clause.unique
           THEN /\ stack' = Call(StmtFrame(if_clause.val,
                                           BranchIndent(Top.indent), Top.id),
                                 [Top EXCEPT !.pc = "if_else"])
                /\ UNCHANGED <<ast, out, status, fnlog, log>>
           ELSE Panic

(* Mutant: an absent else_clause is taken for a failed unwrap *)
StmtIfElse_NonePanics ==
    /\ Running("if_else")
    /\ LET else_clause == Top.node.else_clause
       IN  IF ~else_clause.unique \/ else_clause.val = NoneValue THEN Panic
           ELSE /\ out' = out \o ElseText(Top.indent)
                /\ stack' = Call(StmtFrame(else_clause.val,
                                           BranchIndent(Top.indent), Top.id),
                                 [Top EXCEPT !.pc = "if_end"])
                /\ UNCHANGED <<ast, status, fnlog, log>>

StmtIfElse ==
    /\ Running("if_else")
    /\ LET else_clause == Top.node.else_clause
       IN  IF ~else_clause.unique THEN Panic
           ELSE IF else_clause.val # NoneValue
           THEN /\ out' = out \o ElseText(Top.indent)
                /\ stack' = Call(StmtFrame(else_clause.val,
                                           BranchIndent(Top.indent), Top.id),
                                 [Top EXCEPT !.pc = "if_end"])
                /\ UNCHANGED <<ast, status, fnlog, log>>
           ELSE /\ out' = out
                /\ stack' = Returned
                /\ log' = Closed
                /\ UNCHANGED <<ast, status, fnlog>>

StmtIfEnd ==
    /\ Running("if_end")
    /\ out' = out
    /\ stack' = Returned
    /\ log' = Closed
    /\ UNCHANGED <<ast, status, fnlog>>

---------------------------------------------------------------------------

Next ==
    \/ CompileAstProlog
    \/ CompileAstLoop
    \/ CompileAstEpilog
    \/ CompileFunction
    \/ StmtReturn
    \/ StmtDoOpen
    \/ StmtDoChild
    \/ StmtDoClose
    \/ StmtCallHead
    \/ StmtCallArg
    \/ StmtCallClose
    \/ StmtVar
    \/ StmtSet
    \/ StmtChange
    \/ StmtIfHead
    \/ StmtIfCond
    \/ StmtIfThen
    \/ StmtIfElse
    \/ StmtIfEnd

Spec == Init /\ [][Next]_vars

(* compile_ast is one synchronous call: it runs until it returns or panics *)
FairSpec == Spec /\ WF_vars(Next)

---------------------------------------------------------------------------
(* Reading the buffer and the histories *)

IsPrefix(s, t) == Len(s) <= Len(t) /\ SubSeq(t, 1, Len(s)) = s

IsSuffix(s, t) == Len(s) <= Len(t) /\ SubSeq(t, Len(t) - Len(s) + 1, Len(t)) = s

Complete(i) == log[i].end >= 0

Span(i) == SubSeq(out, log[i].start + 1, log[i].end)

KidSet(i) == { j \in 1..Len(log) : log[j].parent = i }

FirstKid(i) == CHOOSE j \in KidSet(i) : \A k \in KidSet(i) : j <= k

LastKid(i) == CHOOSE j \in KidSet(i) : \A k \in KidSet(i) : k <= j

(* Block-nesting depth: 0 for a function body, one more than the         *)
(* statement that holds it for a Do child and for an If branch           *)
RECURSIVE Depth(_)
Depth(i) == IF log[i].parent = 0 THEN 0 ELSE Depth(log[i].parent) + 1

(* d indentation units, written out *)
Units(d) == [k \in 1..(d * Len(INDENT)) |-> INDENT[((k - 1) % Len(INDENT)) + 1]]

(* The bodies of the functions compiled so far, in order *)
BodyEntries == SelectSeq([i \in 1..Len(log) |-> i], LAMBDA i : log[i].parent = 0)

RECURSIVE SubExprs(_)
RECURSIVE SubExprsOfArgs(_)
SubExprsOfArgs(args) ==
    IF args = <<>> THEN {}
    ELSE SubExprs(Head(args).val) \cup SubExprsOfArgs(Tail(args))

SubExprs(e) ==
    {e} \cup
    CASE e.kind = "BinaryOp" -> SubExprs(e.left.val) \cup SubExprs(e.right.val)
      [] e.kind = "UnaryOp" -> SubExprs(e.expression.val)
      [] e.kind = "Call" -> SubExprsOfArgs(e.arguments)
      [] OTHER -> {}

(* Some subtree of e is behind a reference that is still shared *)
HasAliased(e) ==
    \E s \in SubExprs(e) :
        \/ s.kind = "BinaryOp" /\ (~s.left.unique \/ ~s.right.unique)
        \/ s.kind = "UnaryOp" /\ ~s.expression.unique
        \/ s.kind = "Call" /\ \E k \in 1..Len(s.arguments) : ~s.arguments[k].unique

RECURSIVE StmtAliased(_)
StmtAliased(st) ==
    CASE st.kind \in {"Return", "Set", "Change"} -> HasAliased(st.expr)
      [] st.kind = "Var" -> FALSE
      [] st.kind = "Call" ->
            \E k \in 1..Len(st.arguments) : HasAliased(st.arguments[k])
      [] st.kind = "Do" ->
            \E k \in 1..Len(st.block) :
                ~st.block[k].unique \/ StmtAliased(st.block[k].val)
      [] st.kind = "If" ->
            \/ HasAliased(st.cond)
            \/ ~st.if_clause.unique
            \/ StmtAliased(st.if_clause.val)
            \/ ~st.else_clause.unique
            \/ (st.else_clause.val # NoneValue /\ StmtAliased(st.else_clause.val))

(* Every shared-ownership reference of the Program is uniquely held *)
UniquelyHeld == \A i \in 1..Len(ast) : ~StmtAliased(ast[i].code)

(* The text between the prolog and the epilog of a finished run *)
Compiled == SubSeq(out, Len(PROLOG) + 1, Len(out) - Len(EPILOG))

---------------------------------------------------------------------------
(* Claims *)

(* Lines of the compiled text that start with a return type: function headers *)
HeaderLines ==
    { k \in (Len(PROLOG) + 1)..(Len(out) - Len(EPILOG) - 1) :
        out[k] = "\n" /\ out[k + 1] \in {"int", "long"} }

(* C1: when compile_ast, started on an empty buffer, returns, the buffer   *)
(* is the prolog, then one function emission per Function of the Program,  *)
(* in input order and back to back, then the epilog.                       *)
C1_PrologFunctionsEpilog ==
    status = "done" =>
        /\ IsPrefix(PROLOG, out)
        /\ IsSuffix(EPILOG, out)
        /\ Len(out) >= Len(PROLOG) + Len(EPILOG)
        /\ Len(fnlog) = Len(ast)
        /\ Len(BodyEntries) = Len(ast)
        /\ \A i \in 1..Len(ast) :
              /\ fnlog[i].func = ast[i]
              /\ fnlog[i].start =
                    IF i = 1 THEN Len(PROLOG) ELSE log[BodyEntries[i - 1]].end
              /\ log[BodyEntries[i]].node = ast[i].code
              /\ Complete(BodyEntries[i])
              /\ fnlog[i].start < log[BodyEntries[i]].start
        /\ Len(out) - Len(EPILOG) =
              IF ast = <<>> THEN Len(PROLOG) ELSE log[BodyEntries[Len(ast)]].end
        /\ HeaderLines = { fnlog[i].start + 1 : i \in 1..Len(ast) }
        /\ Cardinality(HeaderLines) = Len(ast)

C1_Witness ==
    /\ status = "done"
    /\ Len(ast) = 2
    /\ ast[1] # ast[2]

(* C7: a Function named main is emitted with return type int, a Function   *)
(* with any other name with return type long, whatever its signature and   *)
(* body.                                                                   *)
C7_MainIntOthersLong ==
    \A i \in 1..Len(fnlog) :
        LET s == fnlog[i].start
            name == fnlog[i].func.name
        IN  /\ Len(out) >= s + 5
            /\ out[s + 1] = "\n"
            /\ out[s + 2] = (IF name = "main" THEN "int" ELSE "long")
            /\ out[s + 3] = " "
            /\ out[s + 4] = name
            /\ out[s + 5] = "("

C7_Witness ==
    /\ status = "done"
    /\ \E i \in 1..Len(fnlog), j \in 1..Len(fnlog) :
          /\ fnlog[i].func.name = "main"
          /\ fnlog[i].func.signature.some
          /\ fnlog[j].func.name = "mainx"

EmptyMain ==
    { <<Function("main", sig, Do(<<>>))>> : sig \in {NoSignature, Signature(<<>>)} }

(* C8 as stated: a main with no parameters and an empty Do block is        *)
(* emitted as exactly int main(){\n}\n.                                    *)
C8_Original ==
    (status = "done" /\ ast \in EmptyMain) =>
        Compiled = <<"int", " ", "main", "(", ")", "{", "\n", "}", "\n">>

(* C8 amended: a main with no parameters and an empty Do block is emitted  *)
(* as exactly \nint main()\n{\n\n}\n: a newline, the header with no        *)
(* parameter tokens, and the braces each on a line of their own with one   *)
(* empty line between them.                                                *)
C8_EmptyMain ==
    (status = "done" /\ ast \in EmptyMain) =>
        Compiled = <<"\n", "int", " ", "main", "(", ")", "\n", "{", "\n",
                     "\n", "}", "\n">>

C8_Witness ==
    /\ status = "done"
    /\ ast = <<Function("main", Signature(<<>>), Do(<<>>))>>

(* The step about to be taken consumes a subtree whose reference is still  *)
(* shared: a Do child, an If branch or else slot, or an operand or an      *)
(* expression-Call argument of the expression about to be rendered.        *)
ConsumesAliased ==
    /\ status = "running"
    /\ stack # <<>>
    /\ \/ Top.pc = "do_loop" /\ Top.items # <<>> /\ ~Head(Top.items).unique
       \/ Top.pc = "if_then" /\ ~Top.node.if_clause.unique
       \/ Top.pc = "if_else" /\ ~Top.node.else_clause.unique
       \/ Top.pc = "if_cond" /\ HasAliased(Top.node.cond)
       \/ Top.pc = "call_loop" /\ Top.items # <<>> /\ HasAliased(Head(Top.items))
       \/ /\ Top.pc = "stmt"
          /\ Top.node.kind \in {"Return", "Set", "Change"}
          /\ HasAliased(Top.node.expr)

(* C2: a step that consumes a subtree whose reference is still shared      *)
(* aborts the run and appends nothing; after the abort the buffer never    *)
(* changes again, and an aborted run's buffer does not end with the epilog.*)
C2_AliasedAborts ==
    /\ [][ConsumesAliased => (status' = "panicked" /\ out' = out)]_vars
    /\ [][status = "panicked" => (status' = "panicked" /\ out' = out)]_vars
    /\ [](status = "panicked" => ~IsSuffix(EPILOG, out))

C2_Witness ==
    /\ status = "panicked"
    /\ Len(out) > Len(PROLOG)
    /\ \E i \in 1..Len(log) :
          /\ log[i].node.kind = "If"
          /\ ~Complete(i)
          /\ ~log[i].node.else_clause.unique
          /\ Cardinality(KidSet(i)) = 1
          /\ Complete(FirstKid(i))

(* C3: every step leaves the previous content of the buffer as a prefix of *)
(* its new content.                                                        *)
C3_AppendOnly == [][IsPrefix(out, out')]_vars

C3_Witness ==
    /\ status = "done"
    /\ Len(log) >= 4
    /\ \E i \in 1..Len(log) : log[i].node.kind = "Do" /\ KidSet(i) # {}

(* C4: a run on a Program in which every shared reference is uniquely held *)
(* never aborts and ends with compile_ast returning, every function        *)
(* emitted and the epilog appended.                                        *)
C4_UniqueTerminates ==
    /\ [](UniquelyHeld => status # "panicked")
    /\ [](UniquelyHeld /\ status = "done" =>
            /\ Len(fnlog) = Len(ast)
            /\ \A i \in 1..Len(log) : Complete(i)
            /\ IsSuffix(EPILOG, out))
    /\ (UniquelyHeld ~> status = "done")

C4_Witness ==
    /\ status = "done"
    /\ UniquelyHeld
    /\ \E i \in 1..Len(log) :
          /\ log[i].node.kind = "If"
          /\ log[i].node.else_clause.val = NoneValue
          /\ Depth(i) >= 1

(* C5: every emitted statement at block-nesting depth d starts with        *)
(* exactly d indentation units (a Do block after the newline it opens      *)
(* with); a function body is at depth 0, and the children of a Do block at *)
(* depth d are at d+1, also when the block is the branch of an If.         *)
C5_DepthIndentation ==
    \A i \in 1..Len(log) :
        LET d == Depth(i)
            s == IF log[i].node.kind = "Do" THEN log[i].start + 1 ELSE log[i].start
            n == d * Len(INDENT)
        IN  /\ Len(out) >= s + n + 1
            /\ log[i].node.kind = "Do" => out[log[i].start + 1] = "\n"
            /\ SubSeq(out, s + 1, s + n) = Units(d)
            /\ out[s + n + 1] # " "

C5_Witness ==
    \E i \in 1..Len(log) :
        /\ Depth(i) = 3
        /\ log[log[i].parent].node.kind = "Do"
        /\ log[log[log[i].parent].parent].node.kind = "If"
        /\ Complete(i)

(* The expression text of a finished Return, Set or Change, cut out of the *)
(* buffer                                                                  *)
ExprSpan(i) ==
    LET lead == Len(INDENT) * log[i].indent
    IN  IF log[i].node.kind = "Return"
        THEN SubSeq(out, log[i].start + lead + 3, log[i].end - 1)
        ELSE SubSeq(out, log[i].start + lead + 5, log[i].end - 2)

RECURSIVE ParenDepth(_, _)
ParenDepth(t, k) ==
    IF k = 0 THEN 0
    ELSE ParenDepth(t, k - 1)
         + (IF t[k] = "(" THEN 1 ELSE IF t[k] = ")" THEN -1 ELSE 0)

(* t opens with a parenthesis that its last token closes *)
Wrapped(t) ==
    /\ Len(t) >= 2
    /\ t[1] = "("
    /\ t[Len(t)] = ")"
    /\ ParenDepth(t, Len(t)) = 0
    /\ \A k \in 1..(Len(t) - 1) : ParenDepth(t, k) >= 1

(* t reads as the expression e *)
RECURSIVE Reads(_, _)
RECURSIVE ReadsArgs(_, _)
ReadsArgs(args, t) ==
    IF args = <<>> THEN t = <<>>
    ELSE IF Len(args) = 1 THEN Reads(args[1].val, t)
    ELSE \E k \in 1..(Len(t) - 2) :
            /\ t[k + 1] = ","
            /\ t[k + 2] = " "
            /\ Reads(args[1].val, SubSeq(t, 1, k))
            /\ ReadsArgs(Tail(args), SubSeq(t, k + 3, Len(t)))

Reads(e, t) ==
    CASE e.kind = "Integer" -> t = IntegerText(e.value) \o <<"l">>
      [] e.kind = "Ident" -> t = <<e.name>>
      [] e.kind = "BinaryOp" ->
            /\ Wrapped(t)
            /\ \E k \in 2..(Len(t) - 5) :
                  /\ t[k + 1] = " "
                  /\ t[k + 2] = get_c_name(e.operator)
                  /\ t[k + 3] = " "
                  /\ Reads(e.left.val, SubSeq(t, 2, k))
                  /\ Reads(e.right.val, SubSeq(t, k + 4, Len(t) - 1))
      [] e.kind = "UnaryOp" ->
            /\ Wrapped(t)
            /\ Len(t) >= 4
            /\ t[2] = get_c_name(e.operator)
            /\ Reads(e.expression.val, SubSeq(t, 3, Len(t) - 1))
      [] e.kind = "Call" ->
            /\ Len(t) >= 3
            /\ t[1] = e.function
            /\ t[2] = "("
            /\ t[Len(t)] = ")"
            /\ ReadsArgs(e.arguments, SubSeq(t, 3, Len(t) - 1))

Operations(e) == { s \in SubExprs(e) : s.kind \in {"BinaryOp", "UnaryOp"} }

(* C6: in the text of every rendered expression, each BinaryOp is          *)
(* "(" left " " op-token " " right ")" with left before right and each     *)
(* UnaryOp is "(" op-token operand ")", at every depth and for every kind  *)
(* of operand, inside one pair of parentheses that match each other.       *)
C6_Parenthesized ==
    \A i \in 1..Len(log) :
        (Complete(i) /\ log[i].node.kind \in {"Return", "Set", "Change"}) =>
            /\ Reads(log[i].node.expr, ExprSpan(i))
            /\ \A s \in Operations(log[i].node.expr) :
                  LET t == compile_expression(s).text
                  IN  /\ Wrapped(t)
                      /\ ~Wrapped(SubSeq(t, 2, Len(t) - 1))

C6_Witness ==
    \E i \in 1..Len(log) :
        /\ Complete(i)
        /\ log[i].node.kind = "Return"
        /\ log[i].node.expr.kind = "BinaryOp"
        /\ log[i].node.expr.left.val.kind = "BinaryOp"
        /\ log[i].node.expr.right.val.kind = "UnaryOp"
        /\ log[i].node.expr.left.val # log[i].node.expr.right.val

RECURSIVE Joined(_)
Joined(texts) ==
    IF texts = <<>> THEN <<>>
    ELSE IF Len(texts) = 1 THEN texts[1]
    ELSE texts[1] \o <<",", " ">> \o Joined(Tail(texts))

Calls(e) == { s \in SubExprs(e) : s.kind = "Call" }

(* C10: a finished Call statement is indent, the function name, "(", its   *)
(* rendered arguments in order with ", " between them and none after the   *)
(* last, ")", ";" and a newline; a rendered Call expression is the same    *)
(* without indent, ";" and newline; with no arguments either is "()" and   *)
(* does not abort.                                                         *)
C10_CallArguments ==
    /\ \A i \in 1..Len(log) :
          log[i].node.kind = "Call" =>
              LET node == log[i].node
                  texts == [k \in 1..Len(node.arguments) |->
                               compile_expression(node.arguments[k]).text]
              IN  /\ Complete(i) =>
                        Span(i) = Units(log[i].indent) \o <<node.function, "(">>
                                    \o Joined(texts) \o <<")", ";", "\n">>
                  /\ (node.arguments = <<>> /\ status # "running") => Complete(i)
    /\ \A i \in 1..Len(log) :
          (Complete(i) /\ log[i].node.kind \in {"Return", "Set", "Change"}) =>
              /\ Calls(log[i].node.expr) # {} => Reads(log[i].node.expr, ExprSpan(i))
              /\ \A c \in Calls(log[i].node.expr) :
                    LET texts == [k \in 1..Len(c.arguments) |->
                                     compile_expression(c.arguments[k].val).text]
                        r == compile_expression(c)
                    IN  /\ r.ok
                        /\ r.text = <<c.function, "(">> \o Joined(texts) \o <<")">>

C10_Witness ==
    /\ status = "done"
    /\ \E i \in 1..Len(log), j \in 1..Len(log), k \in 1..Len(log) :
          /\ log[i].node.kind = "Call" /\ Len(log[i].node.arguments) = 2
          /\ log[j].node.kind = "Call" /\ log[j].node.arguments = <<>>
          /\ log[k].node.kind = "Return"
          /\ log[k].node.expr.kind = "Call"
          /\ Len(log[k].node.expr.arguments) = 2

===========================================================================
